---- MODULE Spec2Model ----
(***************************************************************************)
(* Model of the bisect command line tool.                                  *)
(*   src/unnamed/part_000  the ternary engine (pass / fail / ignore)       *)
(*   src/main.ts           the binary engine (confirm: passed or not)      *)
(* Strings are sequences of one-character strings; indices into items are  *)
(* 0-based as in the code (items[k] of the code is items[k + 1] here).     *)
(* A character that a string literal cannot hold is written as its code    *)
(* point ("U+000B"); the alphabet is ASCII and the white space of          *)
(* ECMAScript.                                                             *)
(***************************************************************************)
EXTENDS Integers, Sequences, FiniteSets, TLC

\* ------------------------------------------------------------------ bounds
MaxN == 5          \* longest item list explored
MaxInvalid == 1    \* invalid oracle inputs explored per prompt
MaxExitCode == 1   \* subprocess exit codes explored: 0..MaxExitCode

\* --------------------------------------------------------------- constants
Absent == <<"undefined">>      \* undefined / null of the code
Unreadable == <<"unreadable">>  \* Deno.readTextFile throws
None == "none"                 \* no verdict yet
PASS == "pass"
FAIL == "fail"
IGNORE == "ignore"
Invalid == "invalid"
TestResult == {PASS, FAIL, IGNORE}
Placeholder == <<"@", "i">>
ExitCodes == 0..MaxExitCode
\* what awaiting a command gives: <<c>> is a result with exit code c, and
\* Rejected is the promise of the command runner being rejected (the command
\* line cannot be parsed or started), which noThrow does not cover
Rejected == <<>>
Outcomes == {<<c>> : c \in ExitCodes} \cup {Rejected}
GraveAccent == "U+0060"

\* ---------------------------------------------------------- string helpers
\* WhiteSpace and LineTerminator of ECMAScript, the characters trim() strips
WhiteSpace ==
  {" ", "\t", "\n", "\r", "\f", "U+000B", "U+00A0", "U+1680", "U+2000",
   "U+2001", "U+2002", "U+2003", "U+2004", "U+2005", "U+2006", "U+2007",
   "U+2008", "U+2009", "U+200A", "U+2028", "U+2029", "U+202F", "U+205F",
   "U+3000", "U+FEFF"}

IsWhite(c) == c \in WhiteSpace

RECURSIVE TrimStart(_)
TrimStart(s) ==
  IF s # <<>> /\ IsWhite(Head(s)) THEN TrimStart(Tail(s)) ELSE s

RECURSIVE TrimEnd(_)
TrimEnd(s) ==
  IF s # <<>> /\ IsWhite(s[Len(s)]) THEN TrimEnd(SubSeq(s, 1, Len(s) - 1)) ELSE s

Trim(s) == TrimEnd(TrimStart(s))

UpperCase ==
  <<"A", "B", "C", "D", "E", "F", "G", "H", "I", "J", "K", "L", "M",
    "N", "O", "P", "Q", "R", "S", "T", "U", "V", "W", "X", "Y", "Z">>
LowerCase ==
  <<"a", "b", "c", "d", "e", "f", "g", "h", "i", "j", "k", "l", "m",
    "n", "o", "p", "q", "r", "s", "t", "u", "v", "w", "x", "y", "z">>

LowerChar(c) ==
  IF \E k \in 1..Len(UpperCase) : UpperCase[k] = c
  THEN LowerCase[CHOOSE k \in 1..Len(UpperCase) : UpperCase[k] = c]
  ELSE c

ToLowerCase(s) == [k \in 1..Len(s) |-> LowerChar(s[k])]

StartsWithAt(s, p, pat) ==
  /\ p + Len(pat) - 1 <= Len(s)
  /\ SubSeq(s, p, p + Len(pat) - 1) = pat

\* a value is truthy in the code's conditions when it is neither undefined
\* nor the empty string
Truthy(v) == v # Absent /\ v # <<>>

\* text.split("\n")
RECURSIVE SplitFrom(_, _, _)
SplitFrom(text, p, cur) ==
  IF p > Len(text) THEN <<cur>>
  ELSE IF text[p] = "\n" THEN <<cur>> \o SplitFrom(text, p + 1, <<>>)
  ELSE SplitFrom(text, p + 1, Append(cur, text[p]))

SplitLines(text) == SplitFrom(text, 1, <<>>)

RECURSIVE FilterNonBlank(_)
FilterNonBlank(lines) ==
  IF lines = <<>> THEN <<>>
  ELSE IF Len(Trim(Head(lines))) > 0
       THEN <<Head(lines)>> \o FilterNonBlank(Tail(lines))
       ELSE FilterNonBlank(Tail(lines))

\* the replacement text of one match: the special patterns of
\* String.prototype.replaceAll are expanded: $$ is a dollar sign, $& the
\* match, $ with a grave accent the text before the match, $ with an
\* apostrophe the text after it
RECURSIVE GetSubstitution(_, _, _, _, _)
GetSubstitution(matched, str, position, repl, q) ==
  IF q > Len(repl) THEN <<>>
  ELSE IF repl[q] = "$" /\ q < Len(repl) /\ repl[q + 1] = "$"
       THEN <<"$">> \o GetSubstitution(matched, str, position, repl, q + 2)
  ELSE IF repl[q] = "$" /\ q < Len(repl) /\ repl[q + 1] = "&"
       THEN matched \o GetSubstitution(matched, str, position, repl, q + 2)
  ELSE IF repl[q] = "$" /\ q < Len(repl) /\ repl[q + 1] = GraveAccent
       THEN SubSeq(str, 1, position - 1)
              \o GetSubstitution(matched, str, position, repl, q + 2)
  ELSE IF repl[q] = "$" /\ q < Len(repl) /\ repl[q + 1] = "'"
       THEN SubSeq(str, position + Len(matched), Len(str))
              \o GetSubstitution(matched, str, position, repl, q + 2)
  ELSE <<repl[q]>> \o GetSubstitution(matched, str, position, repl, q + 1)

RECURSIVE ReplaceFrom(_, _, _, _, _)
ReplaceFrom(str, pat, repl, p, all) ==
  IF p > Len(str) THEN <<>>
  ELSE IF StartsWithAt(str, p, pat)
       THEN GetSubstitution(pat, str, p, repl, 1)
              \o (IF all THEN ReplaceFrom(str, pat, repl, p + Len(pat), all)
                  ELSE SubSeq(str, p + Len(pat), Len(str)))
       ELSE <<str[p]>> \o ReplaceFrom(str, pat, repl, p + 1, all)

replaceAll(str, pat, repl) == ReplaceFrom(str, pat, repl, 1, TRUE)

replace(str, pat, repl) == ReplaceFrom(str, pat, repl, 1, FALSE)

\* the literal substitution of the documentation: every occurrence of the
\* placeholder becomes the item's value, character for character
RECURSIVE SubstituteValue(_, _, _)
SubstituteValue(template, item, p) ==
  IF p > Len(template) THEN <<>>
  ELSE IF StartsWithAt(template, p, Placeholder)
       THEN item \o SubstituteValue(template, item, p + Len(Placeholder))
       ELSE <<template[p]>> \o SubstituteValue(template, item, p + 1)

\* --------------------------------------------------- part_000 pure functions
\* runCommand: the command line that is executed
finalCommand(command, item) ==
  IF Truthy(item) THEN replaceAll(command, Placeholder, item) ELSE command

\* confirmResult: one pass of the switch on the normalised input
ParseChoice(input) ==
  IF input = Absent THEN Invalid
  ELSE LET t == Trim(ToLowerCase(input)) IN
       IF t = <<"p">> \/ t = <<"p", "a", "s", "s">> THEN PASS
       ELSE IF t = <<"f">> \/ t = <<"f", "a", "i", "l">> THEN FAIL
       ELSE IF t = <<"i">> \/ t = <<"i", "g", "n", "o", "r", "e">> THEN IGNORE
       ELSE Invalid

\* loadItems on a readable file
ItemsOf(text) == FilterNonBlank(SplitLines(text))

\* variant: mid is rounded up
MidCeil(l, r) == (l + r + 1) \div 2

\* variant: the probe is the lower end of the range
MidLinear(l, r) == l

Mid(l, r) == (l + r) \div 2


\* ------------------------------------------------------------------- state
VARIABLES
  args,      \* the parsed command line: test-with, items-from-file, next-state-with
  fileText,  \* content of the items file, or Unreadable
  plan,      \* the oracle: plan[k + 1] is the set of verdicts it may give for index k
  run,       \* the process running src/unnamed/part_000
  twin,      \* a second process running src/unnamed/part_000
  bin        \* a process running src/main.ts

vars == <<args, fileText, plan, run, twin, bin>>

\* ------------------------------------------------------------ input domains
ItemA == <<"a">>
ItemB == <<"$", "&">>
ItemC == <<"$", "'">>
ItemD == <<"$", GraveAccent>>
ItemLine(k) ==
  IF k % 4 = 1 THEN ItemA ELSE IF k % 4 = 2 THEN ItemB
  ELSE IF k % 4 = 3 THEN ItemC ELSE ItemD

RECURSIVE FileBody(_, _)
FileBody(k, n) ==
  IF k > n THEN <<>> ELSE ItemLine(k) \o <<"\n">> \o FileBody(k + 1, n)

\* n items one per line; the padded variant adds an empty line before and
\* two whitespace-only lines after
FileWith(n, padded) ==
  IF padded
  THEN <<"\n">> \o FileBody(1, n) \o <<"\r", "\n", " ", "\f">>
  ELSE FileBody(1, n)

FileTexts == {Unreadable} \cup {FileWith(n, pd) : n \in 0..MaxN, pd \in BOOLEAN}

TestTemplates == {Absent, <<>>, <<"t", "@", "i">>}
NextTemplates == {Absent, <<>>, <<"n", "@", "i", "@", "i">>}
FileNames == {Absent, <<"f">>}

ArgSets == [testWith : TestTemplates, itemsFromFile : FileNames,
            nextStateWith : NextTemplates]

Inputs == {Absent, <<>>, <<"p">>, <<"P", " ">>, <<"p", "a", "s", "s">>,
           <<"f">>, <<" ", "F", "A", "I", "L">>, <<"i">>,
           <<"i", "g", "n", "o", "r", "e">>, <<"x">>, <<"p", "f">>,
           <<"p", "\r">>, <<"\f", "I", "g", "N", "o", "R", "e">>,
           <<"Y", "E", "S">>}

NumItems(text) == IF text = Unreadable THEN 0 ELSE Len(ItemsOf(text))

\* a process before its first statement
Fresh ==
  [pc |-> "parse",
   options |-> [testCommand |-> Absent, itemsFile |-> Absent,
               nextStateCommand |-> Absent],
   items |-> <<>>,
   left |-> 0, right |-> 0, lastGoodIndex |-> -1, firstBadIndex |-> -1,
   ignoredItems |-> <<>>, mid |-> 0, currentIndex |-> 0,
   result |-> None, code |-> 0, reprompts |-> 0,
   log |-> <<>>, summary |-> None, between |-> <<>>, exitStatus |-> <<>>]

\* ----------------------------------------------- part_000: steps of one run
\* Each step maps the process state s to its successor.

\* parseArguments, lines 18-43
ParseArguments(s) ==
  IF ~Truthy(args.testWith) \/ ~Truthy(args.itemsFromFile)
  THEN [s EXCEPT !.pc = "exit", !.exitStatus = <<1>>]
  ELSE [s EXCEPT !.pc = "load",
                 !.options = [testCommand |-> args.testWith,
                              itemsFile |-> args.itemsFromFile,
                              nextStateCommand |-> args.nextStateWith]]

\* loadItems, lines 45-53
loadItems(s) ==
  IF fileText = Unreadable
  THEN [s EXCEPT !.pc = "exit", !.exitStatus = <<1>>]
  ELSE [s EXCEPT !.pc = "init", !.items = ItemsOf(fileText)]

\* variant: right starts one past the last item
BisectInitOffByOne(s) ==
  IF Len(s.items) = 0
  THEN [s EXCEPT !.pc = "exit", !.exitStatus = <<1>>]
  ELSE [s EXCEPT !.pc = "outer", !.left = 0, !.right = Len(s.items),
                 !.lastGoodIndex = -1, !.firstBadIndex = -1,
                 !.ignoredItems = <<>>]

\* variant: the empty check is missing
BisectInitNoCheck(s) ==
  [s EXCEPT !.pc = "outer", !.left = 0, !.right = Len(s.items) - 1,
            !.lastGoodIndex = -1, !.firstBadIndex = -1,
            !.ignoredItems = <<>>]

\* bisect, lines 99-111: the empty check and the initial search state
BisectInit(s) ==
  IF Len(s.items) = 0
  THEN [s EXCEPT !.pc = "exit", !.exitStatus = <<1>>]
  ELSE [s EXCEPT !.pc = "outer", !.left = 0, !.right = Len(s.items) - 1,
                 !.lastGoodIndex = -1, !.firstBadIndex = -1,
                 !.ignoredItems = <<>>]

\* variant: the loop stops while one item is left
OuterLoopStrict(s) ==
  IF s.left < s.right
  THEN [s EXCEPT !.pc = "inner", !.mid = Mid(s.left, s.right),
                 !.currentIndex = Mid(s.left, s.right)]
  ELSE [s EXCEPT !.pc = "report"]

\* bisect, lines 113-115: the outer loop test, mid and the cursor
OuterLoop(s) ==
  IF s.left <= s.right
  THEN [s EXCEPT !.pc = "inner", !.mid = Mid(s.left, s.right),
                 !.currentIndex = Mid(s.left, s.right)]
  ELSE [s EXCEPT !.pc = "report"]

\* one line of the console output that the properties read: the "Range"
\* line of a test, a "Running" line, or the verdict that was accepted
Line(kind, s, cmd, v) ==
  [op |-> kind, index |-> s.currentIndex, left |-> s.left, right |-> s.right,
   command |-> cmd, verdict |-> v]

\* variant: the test command is run without the state transition before it
InnerLoopSkipNext(s) ==
  IF s.currentIndex <= s.right
  THEN [s EXCEPT !.pc = "test", !.reprompts = 0,
                 !.log = Append(@, Line("testing", s, Absent, None))]
  ELSE [s EXCEPT !.pc = "narrow"]

\* bisect, lines 119-129: the inner loop test and the "Range" line
InnerLoop(s) ==
  IF s.currentIndex <= s.right
  THEN [s EXCEPT !.pc = "nextstate", !.reprompts = 0,
                 !.log = Append(@, Line("testing", s, Absent, None))]
  ELSE [s EXCEPT !.pc = "narrow"]

\* runCommand, lines 55-59, as called at line 133 and at line 137: the
\* "Running" line is printed and the command is started
runCommand(s, kind, command, item) ==
  [s EXCEPT !.log = Append(@, Line(kind, s, finalCommand(command, item), None))]

\* runCommand, lines 59-66: the awaited command settles with outcome o; a
\* rejection leaves runCommand and bisect and is caught in main, lines
\* 250-253; otherwise the exit code is taken and bisect goes on at next
runCommandResult(s, o, next) ==
  IF o = Rejected
  THEN [s EXCEPT !.pc = "exit", !.exitStatus = <<1>>]
  ELSE [s EXCEPT !.code = o[1], !.pc = next]

\* bisect, lines 132-134, up to the await of line 59
RunNextState(s) ==
  IF Truthy(s.options.nextStateCommand)
  THEN [runCommand(s, "next", s.options.nextStateCommand,
                   s.items[s.currentIndex + 1]) EXCEPT !.pc = "nextwait"]
  ELSE [s EXCEPT !.pc = "test"]

\* bisect, line 133: the state transition command settles
NextStateResult(s, o) == runCommandResult(s, o, "test")

\* bisect, line 137, up to the await of line 59
RunTest(s) ==
  [runCommand(s, "test", s.options.testCommand, Absent) EXCEPT !.pc = "testwait"]

\* variant: a non-zero exit code of the test command ends the run
TestCommandResultAbort(s, o) ==
  IF o # <<0>>
  THEN [s EXCEPT !.pc = "exit", !.exitStatus = <<1>>]
  ELSE runCommandResult(s, o, "prompt")

\* bisect, line 137: the test command settles
TestCommandResult(s, o) == runCommandResult(s, o, "prompt")

\* variant: a recognised choice does not leave the prompt loop
confirmResultStuck(s, input) ==
  IF ParseChoice(input) = Invalid
  THEN [s EXCEPT !.reprompts = @ + 1]
  ELSE s

\* variant: an unrecognised input goes back to running the test command
confirmResultRerun(s, input) ==
  IF ParseChoice(input) = Invalid
  THEN [s EXCEPT !.reprompts = @ + 1, !.pc = "test"]
  ELSE [s EXCEPT !.pc = "verdict", !.result = ParseChoice(input),
                 !.log = Append(@, Line("verdict", s, Absent, ParseChoice(input)))]

\* confirmResult, lines 69-94, as called at line 140
confirmResult(s, input) ==
  IF ParseChoice(input) = Invalid
  THEN [s EXCEPT !.reprompts = @ + 1]
  ELSE [s EXCEPT !.pc = "verdict", !.result = ParseChoice(input),
                 !.log = Append(@, Line("verdict", s, Absent, ParseChoice(input)))]

\* variant: a Fail records mid instead of the cursor
HandleResultMid(s) ==
  IF s.result = PASS
  THEN [s EXCEPT !.lastGoodIndex = s.currentIndex,
                 !.left = s.currentIndex + 1, !.pc = "narrow"]
  ELSE IF s.result = FAIL
  THEN [s EXCEPT !.firstBadIndex = s.mid,
                 !.right = s.currentIndex - 1, !.pc = "narrow"]
  ELSE [s EXCEPT !.ignoredItems = Append(@, s.currentIndex),
                 !.currentIndex = @ + 1, !.pc = "inner"]

\* variant: an Ignore is not recorded
HandleResultNoPush(s) ==
  IF s.result = PASS
  THEN [s EXCEPT !.lastGoodIndex = s.currentIndex,
                 !.left = s.currentIndex + 1, !.pc = "narrow"]
  ELSE IF s.result = FAIL
  THEN [s EXCEPT !.firstBadIndex = s.currentIndex,
                 !.right = s.currentIndex - 1, !.pc = "narrow"]
  ELSE [s EXCEPT !.currentIndex = @ + 1, !.pc = "inner"]

\* variant: a Fail moves right to cursor + 1
HandleResultSign(s) ==
  IF s.result = PASS
  THEN [s EXCEPT !.lastGoodIndex = s.currentIndex,
                 !.left = s.currentIndex + 1, !.pc = "narrow"]
  ELSE IF s.result = FAIL
  THEN [s EXCEPT !.firstBadIndex = s.currentIndex,
                 !.right = s.currentIndex + 1, !.pc = "narrow"]
  ELSE [s EXCEPT !.ignoredItems = Append(@, s.currentIndex),
                 !.currentIndex = @ + 1, !.pc = "inner"]

\* variant: an Ignore narrows the range at once
HandleResultIgnoreNarrows(s) ==
  IF s.result = PASS
  THEN [s EXCEPT !.lastGoodIndex = s.currentIndex,
                 !.left = s.currentIndex + 1, !.pc = "narrow"]
  ELSE IF s.result = FAIL
  THEN [s EXCEPT !.firstBadIndex = s.currentIndex,
                 !.right = s.currentIndex - 1, !.pc = "narrow"]
  ELSE [s EXCEPT !.ignoredItems = Append(@, s.currentIndex),
                 !.right = s.currentIndex - 1, !.pc = "narrow"]

\* variant: a Pass records mid instead of the cursor
HandleResultPassMid(s) ==
  IF s.result = PASS
  THEN [s EXCEPT !.lastGoodIndex = s.mid,
                 !.left = s.currentIndex + 1, !.pc = "narrow"]
  ELSE IF s.result = FAIL
  THEN [s EXCEPT !.firstBadIndex = s.currentIndex,
                 !.right = s.currentIndex - 1, !.pc = "narrow"]
  ELSE [s EXCEPT !.ignoredItems = Append(@, s.currentIndex),
                 !.currentIndex = @ + 1, !.pc = "inner"]

\* variant: a Fail does not move right
HandleResultFailKeepsRight(s) ==
  IF s.result = PASS
  THEN [s EXCEPT !.lastGoodIndex = s.currentIndex,
                 !.left = s.currentIndex + 1, !.pc = "narrow"]
  ELSE IF s.result = FAIL
  THEN [s EXCEPT !.firstBadIndex = s.currentIndex, !.pc = "narrow"]
  ELSE [s EXCEPT !.ignoredItems = Append(@, s.currentIndex),
                 !.currentIndex = @ + 1, !.pc = "inner"]

\* bisect, lines 142-156
HandleResult(s) ==
  IF s.result = PASS
  THEN [s EXCEPT !.lastGoodIndex = s.currentIndex,
                 !.left = s.currentIndex + 1, !.pc = "narrow"]
  ELSE IF s.result = FAIL
  THEN [s EXCEPT !.firstBadIndex = s.currentIndex,
                 !.right = s.currentIndex - 1, !.pc = "narrow"]
  ELSE [s EXCEPT !.ignoredItems = Append(@, s.currentIndex),
                 !.currentIndex = @ + 1, !.pc = "inner"]

\* variant: the fallback is applied only after a sweep that ended on Ignore
NarrowOnlyIgnored(s) ==
  IF s.result = IGNORE /\ s.currentIndex > s.right
  THEN [s EXCEPT !.right = s.mid - 1, !.pc = "outer"]
  ELSE [s EXCEPT !.pc = "outer"]

\* variant: the fallback is applied without its condition
NarrowAlways(s) == [s EXCEPT !.right = s.mid - 1, !.pc = "outer"]

\* bisect, lines 160-162
Narrow(s) ==
  IF s.currentIndex > s.right
  THEN [s EXCEPT !.right = s.mid - 1, !.pc = "outer"]
  ELSE [s EXCEPT !.pc = "outer"]

\* bisect, lines 198-243: the kind of boundary message that is printed
\* ("adjacent": introduced between two items, "range": somewhere in a range)
Boundary_Summary(s) ==
  IF s.firstBadIndex >= 0 /\ s.lastGoodIndex >= 0
  THEN IF s.firstBadIndex - s.lastGoodIndex = 1 THEN "adjacent"
       ELSE IF s.firstBadIndex - s.lastGoodIndex > 1 THEN "range"
       ELSE None
  ELSE IF s.lastGoodIndex >= 0 /\ s.firstBadIndex = -1 THEN "afterGood"
  ELSE IF s.lastGoodIndex = -1 /\ s.firstBadIndex >= 0 THEN "beforeBad"
  ELSE None

\* bisect, lines 209-216: the annotation of each item between the two
ItemsInBetween(s) ==
  IF Boundary_Summary(s) = "range"
  THEN [k \in 1..(s.firstBadIndex - s.lastGoodIndex - 1) |->
          IF \E j \in 1..Len(s.ignoredItems) :
               s.ignoredItems[j] = s.lastGoodIndex + k
          THEN "ignored" ELSE "untested"]
  ELSE <<>>

\* bisect, lines 165-244, and the normal end of main
Report(s) ==
  [s EXCEPT !.pc = "done", !.exitStatus = <<0>>,
            !.summary = Boundary_Summary(s), !.between = ItemsInBetween(s)]

\* what the oracle may type at the prompt of s
MayType(s, input) ==
  IF ParseChoice(input) = Invalid
  THEN s.reprompts < MaxInvalid
  ELSE ParseChoice(input) \in plan[s.currentIndex + 1]

\* one step of a part_000 process, chosen by its position; o is the outcome
\* of a command and input what the oracle types
Step(s, o, input) ==
  CASE s.pc = "parse" -> ParseArguments(s)
    [] s.pc = "load" -> loadItems(s)
    [] s.pc = "init" -> BisectInit(s)
    [] s.pc = "outer" -> OuterLoop(s)
    [] s.pc = "inner" -> InnerLoop(s)
    [] s.pc = "nextstate" -> RunNextState(s)
    [] s.pc = "nextwait" -> NextStateResult(s, o)
    [] s.pc = "test" -> RunTest(s)
    [] s.pc = "testwait" -> TestCommandResult(s, o)
    [] s.pc = "prompt" -> confirmResult(s, input)
    [] s.pc = "verdict" -> HandleResult(s)
    [] s.pc = "narrow" -> Narrow(s)
    [] s.pc = "report" -> Report(s)
    [] OTHER -> s

\* ------------------------------------------------- main.ts: steps of one run
\* parseArguments, lines 12-37
BinParseArguments(s) ==
  IF ~Truthy(args.testWith) \/ ~Truthy(args.itemsFromFile)
  THEN [s EXCEPT !.pc = "exit", !.exitStatus = <<1>>]
  ELSE [s EXCEPT !.pc = "load",
                 !.options = [testCommand |-> args.testWith,
                              itemsFile |-> args.itemsFromFile,
                              nextStateCommand |-> args.nextStateWith]]

\* loadItems, lines 39-47
BinLoadItems(s) ==
  IF fileText = Unreadable
  THEN [s EXCEPT !.pc = "exit", !.exitStatus = <<1>>]
  ELSE [s EXCEPT !.pc = "init", !.items = ItemsOf(fileText)]

\* bisect, lines 70-81
BinBisectInit(s) ==
  IF Len(s.items) = 0
  THEN [s EXCEPT !.pc = "exit", !.exitStatus = <<1>>]
  ELSE [s EXCEPT !.pc = "outer", !.left = 0, !.right = Len(s.items) - 1,
                 !.lastGoodIndex = -1, !.firstBadIndex = -1]

BinLine(kind, s, cmd, v) ==
  [op |-> kind, index |-> s.mid, left |-> s.left, right |-> s.right,
   command |-> cmd, verdict |-> v]

\* variant: mid is rounded up
BinLoopCeil(s) ==
  IF s.left <= s.right
  THEN LET t == [s EXCEPT !.mid = (s.left + s.right + 1) \div 2] IN
       [t EXCEPT !.pc = "nextstate",
                 !.log = Append(@, BinLine("testing", t, Absent, None))]
  ELSE [s EXCEPT !.pc = "report"]

\* bisect, lines 83-92: the loop test, mid and the "Range" line
BinLoop(s) ==
  IF s.left <= s.right
  THEN LET t == [s EXCEPT !.mid = (s.left + s.right) \div 2] IN
       [t EXCEPT !.pc = "nextstate",
                 !.log = Append(@, BinLine("testing", t, Absent, None))]
  ELSE [s EXCEPT !.pc = "report"]

\* runCommand, lines 49-61: only the first placeholder is replaced
BinFinalCommand(command, item) ==
  IF Truthy(item) THEN replace(command, Placeholder, item) ELSE command

\* runCommand, lines 49-53: the "Running" line is printed and the command is
\* started
BinRunCommand(s, kind, command, item) ==
  [s EXCEPT !.log = Append(@, BinLine(kind, s, BinFinalCommand(command, item), None))]

\* runCommand, lines 53-60: the awaited command settles; a rejection is
\* caught in main, lines 151-154
BinRunCommandResult(s, o, next) ==
  IF o = Rejected
  THEN [s EXCEPT !.pc = "exit", !.exitStatus = <<1>>]
  ELSE [s EXCEPT !.code = o[1], !.pc = next]

\* bisect, lines 95-97, up to the await
BinRunNextState(s) ==
  IF Truthy(s.options.nextStateCommand)
  THEN [BinRunCommand(s, "next", s.options.nextStateCommand,
                      s.items[s.mid + 1]) EXCEPT !.pc = "nextwait"]
  ELSE [s EXCEPT !.pc = "test"]

\* bisect, line 96: the state transition command settles
BinNextStateResult(s, o) == BinRunCommandResult(s, o, "test")

\* bisect, line 100, up to the await
BinRunTest(s) ==
  [BinRunCommand(s, "test", s.options.testCommand, Absent) EXCEPT !.pc = "testwait"]

\* bisect, line 100: the test command settles
BinTestCommandResult(s, o) == BinRunCommandResult(s, o, "confirm")

\* confirmResult and bisect, lines 103-113
BinConfirmResult(s, passed) ==
  IF passed
  THEN [s EXCEPT !.lastGoodIndex = s.mid, !.left = s.mid + 1, !.pc = "outer",
                 !.log = Append(@, BinLine("verdict", s, Absent, PASS))]
  ELSE [s EXCEPT !.firstBadIndex = s.mid, !.right = s.mid - 1, !.pc = "outer",
                 !.log = Append(@, BinLine("verdict", s, Absent, FAIL))]

\* bisect, lines 136-144: the boundary message, printed only for two
\* adjacent items
BinSummary(s) ==
  IF s.firstBadIndex >= 0 /\ s.lastGoodIndex >= 0
       /\ s.firstBadIndex = s.lastGoodIndex + 1
  THEN "adjacent" ELSE None

\* bisect, lines 116-145, and the normal end of main
BinReport(s) ==
  [s EXCEPT !.pc = "done", !.exitStatus = <<0>>, !.summary = BinSummary(s)]

BinStep(s, o, passed) ==
  CASE s.pc = "parse" -> BinParseArguments(s)
    [] s.pc = "load" -> BinLoadItems(s)
    [] s.pc = "init" -> BinBisectInit(s)
    [] s.pc = "outer" -> BinLoop(s)
    [] s.pc = "nextstate" -> BinRunNextState(s)
    [] s.pc = "nextwait" -> BinNextStateResult(s, o)
    [] s.pc = "test" -> BinRunTest(s)
    [] s.pc = "testwait" -> BinTestCommandResult(s, o)
    [] s.pc = "confirm" -> BinConfirmResult(s, passed)
    [] s.pc = "report" -> BinReport(s)
    [] OTHER -> s

\* ------------------------------------------------------------------ actions
Others == <<args, fileText, plan, twin, bin>>

DoParseArguments ==
  /\ run.pc = "parse" /\ run' = ParseArguments(run) /\ UNCHANGED Others

DoLoadItems ==
  /\ run.pc = "load" /\ run' = loadItems(run) /\ UNCHANGED Others

DoBisectInit ==
  /\ run.pc = "init" /\ run' = BisectInit(run) /\ UNCHANGED Others

DoOuterLoop ==
  /\ run.pc = "outer" /\ run' = OuterLoop(run) /\ UNCHANGED Others

DoInnerLoop ==
  /\ run.pc = "inner" /\ run' = InnerLoop(run) /\ UNCHANGED Others

DoRunNextState ==
  /\ run.pc = "nextstate" /\ run' = RunNextState(run) /\ UNCHANGED Others

\* the state transition command that is awaited settles
DoNextStateResult ==
  /\ run.pc = "nextwait"
  /\ \E o \in Outcomes : run' = NextStateResult(run, o)
  /\ UNCHANGED Others

DoRunTest ==
  /\ run.pc = "test" /\ run' = RunTest(run) /\ UNCHANGED Others

\* the test command that is awaited settles
DoTestCommandResult ==
  /\ run.pc = "testwait"
  /\ \E o \in Outcomes : run' = TestCommandResult(run, o)
  /\ UNCHANGED Others

\* the oracle enters one of the recognised choices
DoAnswer ==
  /\ run.pc = "prompt"
  /\ \E input \in Inputs :
       /\ ParseChoice(input) # Invalid
       /\ MayType(run, input)
       /\ run' = confirmResult(run, input)
  /\ UNCHANGED Others

\* the oracle enters something else
DoInvalidInput ==
  /\ run.pc = "prompt"
  /\ \E input \in Inputs :
       /\ ParseChoice(input) = Invalid
       /\ MayType(run, input)
       /\ run' = confirmResult(run, input)
  /\ UNCHANGED Others

DoHandleResult ==
  /\ run.pc = "verdict" /\ run' = HandleResult(run) /\ UNCHANGED Others

DoNarrow ==
  /\ run.pc = "narrow" /\ run' = Narrow(run) /\ UNCHANGED Others

DoReport ==
  /\ run.pc = "report" /\ run' = Report(run) /\ UNCHANGED Others

Next ==
  \/ DoParseArguments \/ DoLoadItems \/ DoBisectInit
  \/ DoOuterLoop \/ DoInnerLoop
  \/ DoRunNextState \/ DoNextStateResult
  \/ DoRunTest \/ DoTestCommandResult
  \/ DoAnswer \/ DoInvalidInput
  \/ DoHandleResult \/ DoNarrow \/ DoReport

\* any oracle: every verdict is possible at every prompt
FreePlan(n) == [k \in 1..n |-> TestResult]

Init ==
  /\ args \in ArgSets
  /\ fileText \in FileTexts
  /\ plan = FreePlan(NumItems(fileText))
  /\ run = Fresh
  /\ twin = Fresh
  /\ bin = Fresh

Spec == Init /\ [][Next]_vars

\* ------------------------------------------------------- two runs side by side
Live(s) == s.pc \notin {"done", "exit"}

\* The twin receives what run receives, except for the exit codes of the
\* commands, which are chosen separately for each of the two; a command line
\* that the runner rejects is rejected for both.
TwinCommand ==
  /\ run.pc \in {"nextwait", "testwait"}
  /\ \E o1 \in Outcomes, o2 \in Outcomes :
       /\ (o1 = Rejected) = (o2 = Rejected)
       /\ run' = Step(run, o1, Absent)
       /\ twin' = Step(twin, o2, Absent)
  /\ UNCHANGED <<args, fileText, plan, bin>>

TwinPrompt ==
  /\ run.pc = "prompt"
  /\ \E input \in Inputs :
       /\ MayType(run, input)
       /\ run' = Step(run, <<0>>, input)
       /\ twin' = Step(twin, <<0>>, input)
  /\ UNCHANGED <<args, fileText, plan, bin>>

TwinOther ==
  /\ Live(run) /\ run.pc \notin {"nextwait", "testwait", "prompt"}
  /\ run' = Step(run, <<0>>, Absent)
  /\ twin' = Step(twin, <<0>>, Absent)
  /\ UNCHANGED <<args, fileText, plan, bin>>

NextTwin == TwinCommand \/ TwinPrompt \/ TwinOther

SpecTwin == Init /\ [][NextTwin]_vars

\* The binary engine takes the steps it shares with the ternary one at the
\* same time and with the same answer (Pass is "yes", Fail is "no"); the
\* ternary engine takes its extra steps alone.
CmpCommand ==
  /\ run.pc \in {"nextwait", "testwait"}
  /\ \E o1 \in Outcomes, o2 \in Outcomes :
       /\ run' = Step(run, o1, Absent)
       /\ bin' = BinStep(bin, o2, FALSE)
  /\ UNCHANGED <<args, fileText, plan, twin>>

CmpAnswer ==
  /\ run.pc = "prompt"
  /\ \E input \in Inputs :
       /\ ParseChoice(input) # Invalid
       /\ MayType(run, input)
       /\ run' = Step(run, <<0>>, input)
       /\ bin' = BinStep(bin, <<0>>, ParseChoice(input) = PASS)
  /\ UNCHANGED <<args, fileText, plan, twin>>

CmpShared ==
  /\ run.pc \in {"parse", "load", "init", "outer", "nextstate", "test",
                 "report"}
  /\ run' = Step(run, <<0>>, Absent)
  /\ bin' = BinStep(bin, <<0>>, FALSE)
  /\ UNCHANGED <<args, fileText, plan, twin>>

CmpTernaryOnly ==
  /\ \/ run.pc \in {"inner", "verdict", "narrow"}
     \/ run.pc = "prompt"
  /\ \E input \in Inputs :
       /\ run.pc = "prompt" => (ParseChoice(input) = Invalid /\ MayType(run, input))
       /\ run' = Step(run, <<0>>, input)
  /\ UNCHANGED <<args, fileText, plan, twin, bin>>

NextCmp == CmpCommand \/ CmpAnswer \/ CmpShared \/ CmpTernaryOnly

\* an oracle that never answers Ignore
NoIgnorePlan(n) == [k \in 1..n |-> {PASS, FAIL}]

\* the scripted oracle of a single good-to-bad boundary at b
BoundaryPlan(n, b) == [k \in 1..n |-> {IF k - 1 < b THEN PASS ELSE FAIL}]

InitCmp ==
  /\ args \in ArgSets
  /\ fileText \in FileTexts
  /\ plan \in {NoIgnorePlan(NumItems(fileText))}
               \cup {BoundaryPlan(NumItems(fileText), b) : b \in 0..NumItems(fileText)}
  /\ run = Fresh
  /\ twin = Fresh
  /\ bin = Fresh

SpecCmp == InitCmp /\ [][NextCmp]_vars

\* a scripted oracle: one fixed verdict for each index
FixedPlans(n) == {[k \in 1..n |-> {f[k]}] : f \in [1..n -> TestResult]}

ValidArgs == {a \in ArgSets : Truthy(a.testWith) /\ Truthy(a.itemsFromFile)}

InitPlan ==
  /\ args \in ValidArgs
  /\ \E n \in 1..MaxN : fileText = FileWith(n, FALSE) /\ plan \in FixedPlans(n)
  /\ run = Fresh
  /\ twin = Fresh
  /\ bin = Fresh

SpecPlan == InitPlan /\ [][Next]_vars

\* every prompt is eventually answered with a recognised choice, and the
\* program's own steps are taken. A command that has been started is awaited
\* without a timeout (line 59): nothing here makes it settle.
Fairness ==
  /\ WF_vars(DoParseArguments) /\ WF_vars(DoLoadItems) /\ WF_vars(DoBisectInit)
  /\ WF_vars(DoOuterLoop) /\ WF_vars(DoInnerLoop)
  /\ WF_vars(DoRunNextState) /\ WF_vars(DoRunTest)
  /\ WF_vars(DoAnswer)
  /\ WF_vars(DoHandleResult) /\ WF_vars(DoNarrow) /\ WF_vars(DoReport)

SpecFair == Init /\ [][Next]_vars /\ Fairness

\* ------------------------------------------------------- property vocabulary
N == Len(run.items)
Finished == run.pc \in {"report", "done"}
InLoop == run.pc \in {"outer", "inner", "nextstate", "nextwait", "test",
                      "testwait", "prompt",
                      "verdict", "narrow"}

\* the run was ended by a command that the runner rejected
Aborted(s) == s.pc = "exit" /\ s.log # <<>>

MaxOf(S) == IF S = {} THEN -1 ELSE CHOOSE x \in S : \A y \in S : y <= x
MinOf(S) == IF S = {} THEN -1 ELSE CHOOSE x \in S : \A y \in S : x <= y

PlanIsFixed == \A k \in DOMAIN plan : Cardinality(plan[k]) = 1
PassIndices == {k \in 0..(N - 1) : plan[k + 1] = {PASS}}
FailIndices == {k \in 0..(N - 1) : plan[k + 1] = {FAIL}}
\* items below b pass, items from b on fail, nothing is ignored
Boundary(b) ==
  \A k \in 0..(N - 1) : plan[k + 1] = {IF k < b THEN PASS ELSE FAIL}
Monotone ==
  /\ PlanIsFixed
  /\ \A p \in PassIndices : \A f \in FailIndices : p < f

LinesOf(kind) == {j \in 1..Len(run.log) : run.log[j].op = kind}
TestCount == Cardinality(LinesOf("test"))
TimesTested(k) == Cardinality({j \in LinesOf("test") : run.log[j].index = k})
Verdicts == {run.log[j].verdict : j \in LinesOf("verdict")}
Ignored == {run.ignoredItems[j] : j \in 1..Len(run.ignoredItems)}

TestedOrder(s) ==
  LET idx == {j \in 1..Len(s.log) : s.log[j].op = "test"}
      RECURSIVE Collect(_)
      Collect(j) == IF j > Len(s.log) THEN <<>>
                    ELSE IF j \in idx THEN <<s.log[j].index>> \o Collect(j + 1)
                    ELSE Collect(j + 1)
  IN Collect(1)

Search(s) == <<s.left, s.right, s.lastGoodIndex, s.firstBadIndex>>

CeilLog2(n) == CHOOSE e \in 0..n : 2^e >= n /\ (e = 0 \/ 2^(e - 1) < n)

\* ------------------------------------------------------------------- claims

\* C1: with verdicts Pass below a boundary b and Fail from b on (no Ignore),
\* the loop ends with lastGoodIndex = b - 1 (unset, -1, when b = 0) and
\* firstBadIndex = b (unset, -1, when b = N).
C1_BoundaryFound ==
  Finished =>
    \A b \in 0..N :
      Boundary(b) =>
        /\ run.lastGoodIndex = b - 1
        /\ run.firstBadIndex = (IF b = N THEN -1 ELSE b)

C1_Witness ==
  /\ run.pc = "done" /\ N = 4 /\ Boundary(2)
  /\ run.lastGoodIndex = 1 /\ run.firstBadIndex = 2

\* C2: for a fixed verdict per index in which every Pass index is below every
\* Fail index (Ignore anywhere), the loop ends with lastGoodIndex the highest
\* Pass index and firstBadIndex the lowest Fail index (-1 when there is none).
C2_MinimalRange ==
  (Finished /\ Monotone) =>
    /\ run.lastGoodIndex = MaxOf(PassIndices)
    /\ run.firstBadIndex = MinOf(FailIndices)

C2_Witness ==
  /\ run.pc = "done" /\ Monotone /\ N = 5
  /\ plan[3] = {IGNORE} /\ plan[4] = {IGNORE}
  /\ run.lastGoodIndex = 1 /\ run.firstBadIndex = 4
  /\ Len(run.ignoredItems) = 2

\* C3: with a single good-to-bad boundary and no Ignore, a run of either
\* engine performs at most ceil(log2(N)) + 1 test invocations.
C3_TestBound ==
  (InLoop \/ Finished) =>
    ((\E b \in 0..N : Boundary(b)) =>
       /\ TestCount <= CeilLog2(N) + 1
       /\ Len(TestedOrder(bin)) <= CeilLog2(N) + 1)

C3_Witness ==
  /\ run.pc = "done" /\ bin.pc = "done" /\ N = 4 /\ Boundary(4)
  /\ TestCount = 3 /\ Len(TestedOrder(bin)) = 3 /\ CeilLog2(N) + 1 = 3

\* C4: when every answer is Ignore the run ends with every index tested
\* exactly once, lastGoodIndex and firstBadIndex unset and all N indices in
\* ignoredItems; and a run that ends with both unset has all N indices in
\* ignoredItems.
C4_AllIgnore ==
  Finished =>
    /\ (Verdicts \subseteq {IGNORE}) =>
         /\ \A k \in 0..(N - 1) : TimesTested(k) = 1
         /\ run.lastGoodIndex = -1 /\ run.firstBadIndex = -1
         /\ Ignored = 0..(N - 1)
    /\ (run.lastGoodIndex = -1 /\ run.firstBadIndex = -1) =>
         Ignored = 0..(N - 1)

C4_Witness ==
  /\ run.pc = "done" /\ N = 5 /\ Verdicts = {IGNORE}
  /\ TestCount = 5 /\ Len(run.ignoredItems) = 5
  /\ run.lastGoodIndex = -1 /\ run.firstBadIndex = -1

CommandsReturn ==
  /\ WF_vars(DoNextStateResult) /\ WF_vars(DoTestCommandResult)
  /\ [](~Aborted(run))

C6_RangeShrinks ==
  [][ /\ (InLoop /\ run'.pc \in {"outer", "inner", "nextstate", "nextwait",
                                  "test", "testwait",
                                  "prompt", "verdict", "narrow", "report"}) =>
           (run'.left >= run.left /\ run'.right <= run.right)
      /\ (run.pc = "narrow" /\ run'.pc = "outer") =>
           LET start == run.log[MaxOf(LinesOf("testing"))] IN
             /\ run'.left >= start.left /\ run'.right <= start.right
             /\ run'.right - run'.left < start.right - start.left ]_vars

C6_Witness ==
  /\ run.pc = "outer" /\ N = 5 /\ Len(run.ignoredItems) = 1
  /\ run.firstBadIndex = 3 /\ run.right = 1 /\ run.left = 0


\* C7: with an oracle that never answers Ignore, the ternary and the binary
\* engine, as long as neither has been ended by a rejected command, test the
\* same indices in the same order and hold equal left, right, lastGoodIndex
\* and firstBadIndex after every test and at termination.
C7_GeneralizesBinary ==
  (~Aborted(run) /\ ~Aborted(bin)) =>
    /\ TestedOrder(run) = TestedOrder(bin)
    /\ run.pc \in {"nextstate", "nextwait", "test", "testwait", "prompt"} =>
         run.currentIndex = bin.mid
    /\ run.pc \in {"narrow", "outer", "report", "done"} =>
         /\ Search(run) = Search(bin)
         /\ bin.pc = (IF run.pc = "narrow" THEN "outer" ELSE run.pc)

C7_Witness ==
  /\ run.pc = "done" /\ bin.pc = "done" /\ N = 5
  /\ TestedOrder(bin) = <<2, 0, 1>>
  /\ bin.lastGoodIndex = 0 /\ bin.firstBadIndex = 1

\* C8: the test command that is executed for an item is the test command
\* template with every occurrence of @i replaced by the item's value.
C8_TestCommandSubstituted ==
  \A j \in LinesOf("test") :
    run.log[j].command =
      SubstituteValue(run.options.testCommand, run.items[run.log[j].index + 1], 1)

\* C9: two runs that receive the same verdicts but different exit codes from
\* their commands are at the same place, have tested the same indices in the
\* same order and hold the same lastGoodIndex, firstBadIndex and ignoredItems;
\* a command that returns an exit code, zero or not, never ends the run.
C9_ExitCodesIgnored ==
  /\ run.pc = twin.pc
  /\ TestedOrder(run) = TestedOrder(twin)
  /\ Search(run) = Search(twin)
  /\ run.ignoredItems = twin.ignoredItems
  /\ run.pc \in {"nextwait", "testwait"} =>
       \A c \in ExitCodes :
         /\ Live(Step(run, <<c>>, Absent))
         /\ Live(Step(twin, <<c>>, Absent))
  /\ (run.pc = "exit" /\ run.log # <<>>) =>
       run.log[Len(run.log)].op \in {"next", "test"}

C9_Witness ==
  /\ run.pc = "done" /\ twin.pc = "done" /\ N = 5
  /\ run.code # 0 /\ twin.code = 0
  /\ TestCount = 4 /\ Len(run.ignoredItems) = 2

\* C10: an invalid input at the prompt leaves the engine at the prompt for the
\* same item: left, right, the cursor, lastGoodIndex, firstBadIndex and
\* ignoredItems are unchanged and no command is run again.
C10_InvalidInputReprompts ==
  [][ DoInvalidInput =>
        /\ run'.pc = "prompt"
        /\ run'.currentIndex = run.currentIndex
        /\ Search(run') = Search(run)
        /\ run'.ignoredItems = run.ignoredItems
        /\ run'.log = run.log ]_vars

C10_Witness ==
  /\ run.pc = "prompt" /\ run.reprompts >= 1 /\ TestCount = 2
  /\ Len(run.ignoredItems) = 1

\* the command line or the items file does not allow a run
ConfigError ==
  \/ ~Truthy(args.testWith)
  \/ ~Truthy(args.itemsFromFile)
  \/ fileText = Unreadable
  \/ NumItems(fileText) = 0

\* C11: with a missing test command or items file argument, an unreadable
\* file or a file without a non-blank line, the process only ever ends with
\* exit status 1, and no command has been run and no prompt shown; a process
\* that ends before its first test does so for one of these reasons; a run
\* that completes ends with status 0.
C11_ConfigErrorFatal ==
  /\ ConfigError =>
       /\ run.pc \in {"parse", "load", "init", "exit"}
       /\ run.log = <<>> /\ run.reprompts = 0 /\ run.result = None
  /\ run.pc = "exit" =>
       (run.exitStatus = <<1>> /\ (run.log = <<>> => ConfigError))
  /\ run.pc = "done" => run.exitStatus = <<0>>
  /\ run.exitStatus # <<>> => run.pc \in {"exit", "done"}

C11_Witness ==
  /\ run.pc = "exit" /\ run.exitStatus = <<1>>
  /\ Truthy(args.testWith) /\ Truthy(args.itemsFromFile)
  /\ fileText = FileWith(0, TRUE) /\ run.log = <<>>

\* the output lines of s follow the order of one test at a time: the "Range"
\* line of an item, its state transition when one is configured, its test
\* command, its verdict, and only then the "Range" line of another item
Ordered(s) ==
  \A j \in 1..Len(s.log) :
    LET cur == s.log[j]
        prevOp == IF j = 1 THEN None ELSE s.log[j - 1].op
        prevIndex == IF j = 1 THEN -1 ELSE s.log[j - 1].index
    IN CASE cur.op = "testing" -> prevOp \in {None, "verdict"}
         [] cur.op = "next" ->
              /\ Truthy(s.options.nextStateCommand)
              /\ prevOp = "testing" /\ prevIndex = cur.index
         [] cur.op = "test" ->
              /\ prevOp = (IF Truthy(s.options.nextStateCommand)
                           THEN "next" ELSE "testing")
              /\ prevIndex = cur.index
         [] cur.op = "verdict" -> prevOp = "test" /\ prevIndex = cur.index
         [] OTHER -> FALSE

LastOp(s) == IF s.log = <<>> THEN None ELSE s.log[Len(s.log)].op

\* C12: one item is in test at a time: its state transition (when configured)
\* comes before its test command, its test command before the prompt, and
\* until its verdict is accepted no line of another item is printed and left,
\* right, lastGoodIndex, firstBadIndex and ignoredItems do not change.
C12_OneTestAtATime ==
  [][ /\ Ordered(run')
      /\ run'.pc = "prompt" =>
           (LastOp(run') = "test"
              /\ run'.log[Len(run'.log)].index = run'.currentIndex)
      /\ run.pc \in {"nextstate", "nextwait", "test", "testwait", "prompt"} =>
           /\ Search(run') = Search(run)
           /\ run'.ignoredItems = run.ignoredItems
           /\ run'.currentIndex = run.currentIndex ]_vars

C12_Witness ==
  /\ run.pc = "prompt" /\ N = 5 /\ Truthy(run.options.nextStateCommand)
  /\ Len(run.log) = 7 /\ run.log[6].op = "next" /\ run.log[7].op = "test"
  /\ run.log[4].op = "verdict" /\ run.log[4].index # run.log[6].index

\* C13: an Ignore at a cursor below right adds the cursor to ignoredItems,
\* leaves left and right unchanged, and the next item tested is cursor + 1,
\* in the same range.
C13_IgnoreTriesNext ==
  [][ /\ (run.pc = "verdict" /\ run.result = IGNORE
            /\ run.currentIndex < run.right) =>
           /\ run'.ignoredItems = Append(run.ignoredItems, run.currentIndex)
           /\ run'.left = run.left /\ run'.right = run.right
           /\ run'.currentIndex = run.currentIndex + 1
           /\ run'.pc = "inner"
      /\ \A j \in 1..(Len(run'.log) - 1) :
           (run'.log[j].op = "verdict" /\ run'.log[j].verdict = IGNORE
              /\ run'.log[j].index < run'.log[j].right) =>
             /\ run'.log[j + 1].op = "testing"
             /\ run'.log[j + 1].index = run'.log[j].index + 1
             /\ run'.log[j + 1].left = run'.log[j].left
             /\ run'.log[j + 1].right = run'.log[j].right
      /\ (run.pc = "inner" /\ run.result = IGNORE
            /\ run.currentIndex <= run.right) => run'.pc = "nextstate" ]_vars

C13_Witness ==
  /\ run.pc = "prompt" /\ N = 5 /\ run.currentIndex = 3
  /\ run.ignoredItems = <<2>> /\ run.left = 0 /\ run.right = 4
  /\ TestedOrder(run) = <<2, 3>>

\* Scenario A: four items, the second passes, the third and fourth fail
ScenarioA ==
  /\ N = 4 /\ Cardinality(plan[1]) = 1
  /\ plan[2] = {PASS} /\ plan[3] = {FAIL} /\ plan[4] = {FAIL}

\* C14 as stated: in Scenario A the engine tests index 1, then index 3, then
\* index 2, and ends with lastGoodIndex = 1 and firstBadIndex = 2.
C14_ScenarioAOrder ==
  (Finished /\ ScenarioA) =>
    /\ TestedOrder(run) = <<1, 3, 2>>
    /\ run.lastGoodIndex = 1 /\ run.firstBadIndex = 2

\* C14 as amended: in Scenario A the engine tests index 1 in the range [0, 3]
\* (left becomes 2), then index 2 in the range [2, 3] (right becomes 1), tests
\* nothing else, and ends with lastGoodIndex = 1 and firstBadIndex = 2.
C14_ScenarioACode ==
  (Finished /\ ScenarioA) =>
    /\ TestedOrder(run) = <<1, 2>>
    /\ LET first == run.log[MinOf(LinesOf("testing"))]
           second == run.log[MaxOf(LinesOf("testing"))]
       IN /\ first.index = 1 /\ first.left = 0 /\ first.right = 3
          /\ second.index = 2 /\ second.left = 2 /\ second.right = 3
    /\ run.left = 2 /\ run.right = 1
    /\ run.lastGoodIndex = 1 /\ run.firstBadIndex = 2

C14_Witness ==
  /\ run.pc = "done" /\ ScenarioA /\ TestedOrder(run) = <<1, 2>>
  /\ run.lastGoodIndex = 1 /\ run.firstBadIndex = 2

\* C15: a Fail at the cursor sets firstBadIndex to the cursor and right to
\* cursor - 1, the next outer iteration starts with right = cursor - 1, and
\* the fallback right = mid - 1 changes right only when the sweep from mid to
\* right ended on Ignore.
C15_FailSetsRight ==
  [][ /\ (run.pc = "verdict" /\ run.result = FAIL) =>
           /\ run'.firstBadIndex = run.currentIndex
           /\ run'.right = run.currentIndex - 1
      /\ (run.pc = "narrow" /\ run'.pc = "outer" /\ run.result = FAIL) =>
           run'.right = run.currentIndex - 1
      /\ (run.pc = "narrow" /\ run'.pc = "outer" /\ run'.right # run.right) =>
           run.result = IGNORE ]_vars

PassAnswered(s) ==
  {s.log[j].index : j \in {i \in 1..Len(s.log) :
                             s.log[i].op = "verdict" /\ s.log[i].verdict = PASS}}
FailAnswered(s) ==
  {s.log[j].index : j \in {i \in 1..Len(s.log) :
                             s.log[i].op = "verdict" /\ s.log[i].verdict = FAIL}}

\* C16: for any oracle lastGoodIndex never decreases and is the highest index
\* answered Pass so far, and firstBadIndex, once set, never increases and is
\* the lowest index answered Fail so far (-1 while there is none).
C16_GoodBadMonotone ==
  [][ (InLoop /\ run'.pc # "exit") =>
        /\ run'.lastGoodIndex >= run.lastGoodIndex
        /\ run.firstBadIndex # -1 =>
             (run'.firstBadIndex # -1 /\ run'.firstBadIndex <= run.firstBadIndex)
        /\ run'.pc # "verdict" =>
             /\ run'.lastGoodIndex = MaxOf(PassAnswered(run'))
             /\ run'.firstBadIndex = MinOf(FailAnswered(run')) ]_vars

C16_Witness ==
  /\ run.pc = "done" /\ N = 5
  /\ PassAnswered(run) = {0} /\ FailAnswered(run) = {1, 2}
  /\ run.lastGoodIndex = 0 /\ run.firstBadIndex = 1

\* C17: for any oracle no index is tested more than once, so a run makes at
\* most N test invocations, and ignoredItems never holds an index twice.
C17_NoRetest ==
  (InLoop \/ Finished) =>
    /\ \A k \in 0..(N - 1) : TimesTested(k) <= 1
    /\ TestCount <= N
    /\ \A i, j \in 1..Len(run.ignoredItems) :
         run.ignoredItems[i] = run.ignoredItems[j] => i = j

C17_Witness ==
  /\ run.pc = "done" /\ N = 5 /\ TestedOrder(run) = <<2, 3, 0, 1>>
  /\ run.ignoredItems = <<2, 1>> /\ run.firstBadIndex = 3
  /\ run.lastGoodIndex = 0

\* C18: when the run has ended, for any oracle, every index strictly between
\* lastGoodIndex (-1 when unset) and firstBadIndex (N when unset) is in
\* ignoredItems; the report annotates no item as "untested", and a run
\* without Ignore that set both ends with a gap of exactly 1.
C18_GapIsIgnored ==
  Finished =>
    /\ \A k \in 0..(N - 1) :
         (/\ run.lastGoodIndex < k
          /\ k < (IF run.firstBadIndex = -1 THEN N ELSE run.firstBadIndex))
           => k \in Ignored
    /\ run.pc = "done" =>
         /\ \A j \in 1..Len(run.between) : run.between[j] = "ignored"
         /\ (run.ignoredItems = <<>> /\ run.lastGoodIndex >= 0
               /\ run.firstBadIndex >= 0) =>
              (run.firstBadIndex - run.lastGoodIndex = 1
                 /\ run.summary = "adjacent")

C18_Witness ==
  /\ run.pc = "done" /\ N = 5 /\ run.summary = "range"
  /\ run.between = <<"ignored", "ignored">>
  /\ run.lastGoodIndex = 0 /\ run.firstBadIndex = 3

\* C19: in every state of the loop and after it, for any oracle, no index
\* answered Pass is at or above an index answered Fail, and when both
\* lastGoodIndex and firstBadIndex are set lastGoodIndex < firstBadIndex, so
\* the gap of the report is at least 1.
C19_GoodBelowBad ==
  (InLoop \/ Finished) =>
    /\ \A p \in PassAnswered(run) : \A f \in FailAnswered(run) : p < f
    /\ (run.lastGoodIndex >= 0 /\ run.firstBadIndex >= 0) =>
         run.lastGoodIndex < run.firstBadIndex
    /\ run.pc = "done" => run.summary \in {"adjacent", "range", "afterGood",
                                           "beforeBad", None}
    /\ (run.pc = "done" /\ run.lastGoodIndex >= 0 /\ run.firstBadIndex >= 0)
         => run.summary \in {"adjacent", "range"}

C19_Witness ==
  /\ run.pc = "done" /\ N = 5
  /\ PassAnswered(run) = {0, 1} /\ FailAnswered(run) = {2}
  /\ run.lastGoodIndex = 1 /\ run.firstBadIndex = 2

\* C20: in every state of the loop 0 <= left <= right + 1 <= N and
\* lastGoodIndex = left - 1; every tested index lies in [left, right] of the
\* time of its test and in 0..N-1; after the loop left = right + 1.
C20_RangeInvariant ==
  (InLoop \/ Finished) =>
    /\ 0 <= run.left /\ run.left <= run.right + 1 /\ run.right + 1 <= N
    /\ run.lastGoodIndex = run.left - 1
    /\ \A j \in LinesOf("testing") :
         /\ run.log[j].left <= run.log[j].index
         /\ run.log[j].index <= run.log[j].right
         /\ 0 <= run.log[j].index /\ run.log[j].index <= N - 1
    /\ run.pc \in {"inner", "nextstate", "nextwait", "test", "testwait",
                 "prompt", "verdict"} =>
         run.left <= run.mid /\ run.mid <= run.currentIndex
    /\ run.pc \in {"nextstate", "nextwait", "test", "testwait", "prompt",
                 "verdict"} =>
         run.currentIndex <= run.right
    /\ Finished => run.left = run.right + 1

C20_Witness ==
  /\ run.pc = "done" /\ N = 5 /\ run.left = 0 /\ run.right = -1
  /\ run.lastGoodIndex = -1 /\ run.firstBadIndex = 0
  /\ TestedOrder(run) = <<2, 3, 0>>

====
